---- MODULE Spec2Model ----
(***************************************************************************)
(* A model of revolt/server.py: the Server and SystemMessages wrappers,    *)
(* the shared State cache they read, and the transport they call.          *)
(*                                                                         *)
(* Python values are tagged records ([t |-> "str", v |-> "abc"]) so that   *)
(* None, "", False, {} and [] stay distinct and truthiness is computed as  *)
(* Python computes it.  A dict value keeps its items in insertion order.   *)
(* Keyword arguments and the top-level payload are functions from names    *)
(* to values; a name outside the DOMAIN is a key that is not present.      *)
(***************************************************************************)
EXTENDS Naturals, Sequences, FiniteSets, TLC

VARIABLES
    assertsOn,  \* TRUE: assert statements run (python); FALSE: stripped (python -O)
    cache,      \* State.channels: channel id -> Channel object or None
    server,     \* the Server object's slots (None before __init__)
    born,       \* what __init__ was given and what it built (history)
    requests,   \* the calls the http transport has received, oldest first
    last        \* the call that has just completed: its arguments and outcome

vars == <<assertsOn, cache, server, born, requests, last>>

---------------------------------------------------------------------------
(* Bounds of the model *)

\* most keyword arguments one _update call carries
MaxFields == 2
\* most channel ids a Server payload lists
MaxListed == 2
\* object versions a cache entry goes through (0..MaxVer)
MaxVer == 1
\* most requests the transport receives
MaxRequests == 2

ChannelIds == {"c1", "c2"}
RoleIds == {"r1", "r2"}
MemberIds == {"u1", "u2"}

---------------------------------------------------------------------------
(* Python values *)

None == [t |-> "None"]
Str(s) == [t |-> "str", v |-> s]
Bool(b) == [t |-> "bool", v |-> b]
Dict(items) == [t |-> "dict", items |-> items]
List(elems) == [t |-> "list", elems |-> elems]
Tuple(elems) == [t |-> "tuple", elems |-> elems]

EmptyDict == Dict(<<>>)

\* bool(x)
Truthy(x) ==
    CASE x.t = "None" -> FALSE
      [] x.t = "bool" -> x.v
      [] x.t = "str" -> x.v # ""
      [] x.t = "dict" -> Len(x.items) > 0
      [] x.t \in {"list", "tuple"} -> Len(x.elems) > 0
      [] OTHER -> TRUE

\* a or b
Or(a, b) == IF Truthy(a) THEN a ELSE b

\* d.get(k, default) on a dict value
DictGet(d, k, default) ==
    LET hits == {i \in 1..Len(d.items) : d.items[i][1] = k}
    IN  IF hits = {} THEN default ELSE d.items[CHOOSE i \in hits : TRUE][2]

\* d[k] = v on the items of a dict: a new key goes last, a known key keeps its place
DictSet(items, k, v) ==
    IF \E i \in 1..Len(items) : items[i][1] = k
    THEN [i \in 1..Len(items) |-> IF items[i][1] = k THEN <<k, v>> ELSE items[i]]
    ELSE Append(items, <<k, v>>)

\* list(d.values()) on the items of a dict
DictValues(items) == [i \in 1..Len(items) |-> items[i][2]]

DictKeys(items) == {items[i][1] : i \in 1..Len(items)}

Range(seq) == {seq[i] : i \in 1..Len(seq)}

\* How a call ends
Returned(v) == [kind |-> "return", value |-> v]
Raised(exc) == [kind |-> "raise", exc |-> exc]

\* items.get(k): None for a key that is not there
ItemsLookupDefault(items, k) ==
    LET hits == {i \in 1..Len(items) : items[i][1] = k}
    IN  IF hits = {} THEN Returned(None) ELSE Returned(items[CHOOSE i \in hits : TRUE][2])

\* d[k] on the items of a dict: the value, or KeyError
ItemsLookup(items, k) ==
    LET hits == {i \in 1..Len(items) : items[i][1] = k}
    IN  IF hits = {} THEN Raised("KeyError") ELSE Returned(items[CHOOSE i \in hits : TRUE][2])

\* data.get(k, default) and data[k] on a payload; kw's value for a keyword whose default is None
Get(data, k, default) == IF k \in DOMAIN data THEN data[k] ELSE default
Arg(kw, k) == Get(kw, k, None)

---------------------------------------------------------------------------
(* The collaborators: State.get_channel, and the entity constructors *)

TextChannel(id, ver) == [t |-> "TextChannel", id |-> id, ver |-> ver]
VoiceChannel(id, ver) == [t |-> "VoiceChannel", id |-> id, ver |-> ver]

\* state.get_channel(id): the cached channel, or None
StateGetChannel(c, id) == IF id \in DOMAIN c THEN c[id] ELSE None

Asset(data) == [t |-> "Asset", data |-> data]
Category(data) == [t |-> "Category", data |-> data]
Role(data, role_id) == [t |-> "Role", id |-> role_id, data |-> data]
\* ServerPermissions(*values), and its .value
ServerPermissions(values) == [t |-> "ServerPermissions", value |-> values.elems]

---------------------------------------------------------------------------
(* SystemMessages *)

SystemMessagesInit(data) ==
    [t |-> "SystemMessages",
     user_joined_id |-> DictGet(data, "user_joined", None),
     user_left_id |-> DictGet(data, "user_left", None),
     user_kicked_id |-> DictGet(data, "user_kicked", None),
     user_banned_id |-> DictGet(data, "user_banned", None)]

\* Whether the name TextChannel is bound in the module at run time: it is
\* imported only under `if TYPE_CHECKING:`, which is False when the code runs.
TextChannelBound == FALSE

\* assert isinstance(channel, TextChannel): "pass", or the exception it raises
AssertIsTextChannel(channel, asserts) ==
    IF ~asserts THEN "pass"
    ELSE IF ~TextChannelBound THEN "NameError"
    ELSE IF channel.t = "TextChannel" THEN "pass"
    ELSE "AssertionError"

\* ChannelProperty with the lookup moved before the test of the id
ChannelPropertyEager(sm, slot, c, asserts) ==
    LET key == IF sm[slot] = None THEN "" ELSE sm[slot].v
        channel == StateGetChannel(c, key)
    IN  IF ~Truthy(sm[slot])
        THEN [result |-> Returned(None), looked |-> <<key>>]
        ELSE LET check == AssertIsTextChannel(channel, asserts)
             IN  [result |-> IF check = "pass" THEN Returned(channel) ELSE Raised(check),
                  looked |-> <<key>>]

\* One of the four properties, reading the id slot `slot`: the outcome, and the
\* ids it asked the cache for.
ChannelProperty(sm, slot, c, asserts) ==
    IF ~Truthy(sm[slot])
    THEN [result |-> Returned(None), looked |-> <<>>]
    ELSE LET channel == StateGetChannel(c, sm[slot].v)
             check == AssertIsTextChannel(channel, asserts)
         IN  [result |-> IF check = "pass" THEN Returned(channel) ELSE Raised(check),
              looked |-> <<sm[slot].v>>]

---------------------------------------------------------------------------
(* Server *)

RECURSIVE DictFromPairs(_)
\* {k: v for k, v in pairs}
DictFromPairs(pairs) ==
    IF pairs = <<>> THEN <<>>
    ELSE LET n == Len(pairs)
         IN  DictSet(DictFromPairs(SubSeq(pairs, 1, n - 1)), pairs[n][1], pairs[n][2])

\* [state.get_channel(channel_id) for channel_id in ids]
ResolveAll(c, ids) == [i \in 1..Len(ids) |-> StateGetChannel(c, ids[i])]

\* ChannelDict without the filter: every listed id becomes a key
ChannelDictUnfiltered(c, ids) ==
    DictFromPairs([i \in 1..Len(ids) |-> <<ids[i], StateGetChannel(c, ids[i])>>])

\* {channel.id: channel for channel in filter(bool, resolved)}
ChannelDict(c, ids) ==
    LET channels == SelectSeq(ResolveAll(c, ids), Truthy)
    IN  DictFromPairs([i \in 1..Len(channels) |-> <<channels[i].id, channels[i]>>])

\* {role_id: Role(role, role_id, state, self) for role_id, role in roles.items()}
RoleDict(roles) ==
    DictFromPairs([i \in 1..Len(roles.items) |->
                      <<roles.items[i][1], Role(roles.items[i][2], roles.items[i][1])>>])

\* [Category(data, state) for data in categories]
Categories(categories) == [i \in 1..Len(categories.elems) |-> Category(categories.elems[i])]

\* Server.__init__(data, state)
ServerInit(data, c) ==
    [id |-> data["_id"],
     name |-> data["name"],
     owner_id |-> data["owner"],
     default_permissions |-> ServerPermissions(data["default_permissions"]),
     description |-> Or(Get(data, "description", None), None),
     nsfw |-> Get(data, "nsfw", Bool(FALSE)),
     system_messages |-> SystemMessagesInit(Get(data, "system_messages", EmptyDict)),
     categories |-> Categories(Get(data, "categories", List(<<>>))),
     icon |-> IF Truthy(Get(data, "icon", None)) THEN Asset(data["icon"]) ELSE None,
     banner |-> IF Truthy(Get(data, "banner", None)) THEN Asset(data["banner"]) ELSE None,
     _members |-> <<>>,
     _roles |-> RoleDict(Get(data, "roles", EmptyDict)),
     _channels |-> ChannelDict(c, data["channels"])]

\* Server._update(**kw), statement by statement
UpdateOwner(s, kw) ==
    IF Truthy(Arg(kw, "owner")) THEN [s EXCEPT !.owner_id = kw["owner"]] ELSE s

UpdateName(s, kw) ==
    IF Truthy(Arg(kw, "name")) THEN [s EXCEPT !.name = kw["name"]] ELSE s

\* the description statement testing truthiness instead of presence
UpdateDescriptionTruthy(s, kw) ==
    IF Truthy(Arg(kw, "description"))
    THEN [s EXCEPT !.description = Or(kw["description"], None)] ELSE s

UpdateDescription(s, kw) ==
    IF Arg(kw, "description") # None
    THEN [s EXCEPT !.description = Or(kw["description"], None)] ELSE s

UpdateIcon(s, kw) ==
    IF Truthy(Arg(kw, "icon")) THEN [s EXCEPT !.icon = Asset(kw["icon"])] ELSE s

UpdateBanner(s, kw) ==
    IF Truthy(Arg(kw, "banner")) THEN [s EXCEPT !.banner = Asset(kw["banner"])] ELSE s

UpdateDefaultPermissions(s, kw) ==
    IF Truthy(Arg(kw, "default_permissions"))
    THEN [s EXCEPT !.default_permissions = ServerPermissions(kw["default_permissions"])]
    ELSE s

\* the nsfw statement testing truthiness instead of presence
UpdateNsfwTruthy(s, kw) ==
    IF Truthy(Arg(kw, "nsfw")) THEN [s EXCEPT !.nsfw = kw["nsfw"]] ELSE s

UpdateNsfw(s, kw) ==
    IF Arg(kw, "nsfw") # None THEN [s EXCEPT !.nsfw = kw["nsfw"]] ELSE s

UpdateSystemMessages(s, kw) ==
    IF Arg(kw, "system_messages") # None
    THEN [s EXCEPT !.system_messages = SystemMessagesInit(kw["system_messages"])]
    ELSE s

\* the categories statement extending the list instead of replacing it
UpdateCategoriesMerge(s, kw) ==
    IF Arg(kw, "categories") # None
    THEN [s EXCEPT !.categories = s.categories \o Categories(kw["categories"])] ELSE s

UpdateCategories(s, kw) ==
    IF Arg(kw, "categories") # None
    THEN [s EXCEPT !.categories = Categories(kw["categories"])] ELSE s

ServerUpdate(s, kw) ==
    LET s1 == UpdateOwner(s, kw)
        s2 == UpdateName(s1, kw)
        s3 == UpdateDescription(s2, kw)
        s4 == UpdateIcon(s3, kw)
        s5 == UpdateBanner(s4, kw)
        s6 == UpdateDefaultPermissions(s5, kw)
        s7 == UpdateNsfw(s6, kw)
        s8 == UpdateSystemMessages(s7, kw)
    IN  UpdateCategories(s8, kw)

\* The properties roles, members, channels
ServerRoles(s) == DictValues(s._roles)
ServerMembers(s) == DictValues(s._members)
ServerChannels(s) == DictValues(s._channels)

\* get_channel falling back on the shared cache
GetChannelResultFromState(s, channel_id) ==
    IF channel_id \in DictKeys(s._channels) THEN ItemsLookup(s._channels, channel_id)
    ELSE IF cache[channel_id] # None THEN Returned(cache[channel_id])
    ELSE Raised("KeyError")

\* get_role, get_member, get_channel
GetRoleResult(s, role_id) == ItemsLookup(s._roles, role_id)
GetMemberResult(s, member_id) == ItemsLookup(s._members, member_id)
GetChannelResult(s, channel_id) == ItemsLookup(s._channels, channel_id)

\* http.set_default_permissions(self.id, *permissions.value), as the transport receives it
PermissionsRequest(s, permissions) ==
    [route |-> "set_default_permissions", server_id |-> s.id,
     values |-> permissions.value, status |-> "pending"]

---------------------------------------------------------------------------
(* The calls.  The event loop is single-threaded: a call runs to its end,  *)
(* `last` records it, and Return hands control back to the loop.           *)

Idle == [op |-> "idle"]

\* Server(data, state)
Construct(data) ==
    /\ last = Idle
    /\ server = None
    /\ server' = ServerInit(data, cache)
    /\ born' = [data |-> data, cache |-> cache, server |-> server']
    /\ last' = [op |-> "__init__", looked |-> data["channels"]]
    /\ UNCHANGED <<assertsOn, cache, requests>>

\* server._update(**kw)
Update(kw) ==
    /\ last = Idle
    /\ server # None
    /\ server' = ServerUpdate(server, kw)
    /\ last' = [op |-> "_update", kw |-> kw, before |-> server]
    /\ UNCHANGED <<assertsOn, cache, born, requests>>

GetRole(role_id) ==
    /\ last = Idle
    /\ server # None
    /\ last' = [op |-> "get_role", arg |-> role_id, result |-> GetRoleResult(server, role_id)]
    /\ UNCHANGED <<assertsOn, cache, server, born, requests>>

GetMember(member_id) ==
    /\ last = Idle
    /\ server # None
    /\ last' = [op |-> "get_member", arg |-> member_id,
                result |-> GetMemberResult(server, member_id)]
    /\ UNCHANGED <<assertsOn, cache, server, born, requests>>

GetChannel(channel_id) ==
    /\ last = Idle
    /\ server # None
    /\ last' = [op |-> "get_channel", arg |-> channel_id,
                result |-> GetChannelResult(server, channel_id)]
    /\ UNCHANGED <<assertsOn, cache, server, born, requests>>

\* server.owner
Owner ==
    /\ last = Idle
    /\ server # None
    /\ last' = [op |-> "owner", arg |-> server.owner_id.v,
                result |-> GetMemberResult(server, server.owner_id.v)]
    /\ UNCHANGED <<assertsOn, cache, server, born, requests>>

\* What a read of one of the four properties leaves in `last`
PropertyRead(slot) ==
    LET r == ChannelProperty(server.system_messages, slot, cache, assertsOn)
    IN  [op |-> "system_messages", slot |-> slot, result |-> r.result, looked |-> r.looked]

\* server.system_messages.user_joined
UserJoined ==
    /\ last = Idle
    /\ server # None
    /\ last' = PropertyRead("user_joined_id")
    /\ UNCHANGED <<assertsOn, cache, server, born, requests>>

\* server.system_messages.user_left
UserLeft ==
    /\ last = Idle
    /\ server # None
    /\ last' = PropertyRead("user_left_id")
    /\ UNCHANGED <<assertsOn, cache, server, born, requests>>

\* server.system_messages.user_kicked
UserKicked ==
    /\ last = Idle
    /\ server # None
    /\ last' = PropertyRead("user_kicked_id")
    /\ UNCHANGED <<assertsOn, cache, server, born, requests>>

\* server.system_messages.user_banned
UserBanned ==
    /\ last = Idle
    /\ server # None
    /\ last' = PropertyRead("user_banned_id")
    /\ UNCHANGED <<assertsOn, cache, server, born, requests>>

\* set_default_permissions that also writes the new permissions locally
SetDefaultPermissionsOptimistic(permissions) ==
    /\ last = Idle
    /\ server # None
    /\ Len(requests) < MaxRequests
    /\ requests' = Append(requests, PermissionsRequest(server, permissions))
    /\ server' = [server EXCEPT !.default_permissions = permissions]
    /\ last' = [op |-> "set_default_permissions", permissions |-> permissions]
    /\ UNCHANGED <<assertsOn, cache, born>>

\* await server.set_default_permissions(permissions), up to the await
SetDefaultPermissions(permissions) ==
    /\ last = Idle
    /\ server # None
    /\ Len(requests) < MaxRequests
    /\ requests' = Append(requests, PermissionsRequest(server, permissions))
    /\ last' = [op |-> "set_default_permissions", permissions |-> permissions]
    /\ UNCHANGED <<assertsOn, cache, server, born>>

\* The transport answers request i: the awaiting coroutine returns, or raises
HttpComplete(i) ==
    /\ last = Idle
    /\ requests[i].status = "pending"
    /\ requests' = [requests EXCEPT ![i].status = "done"]
    /\ UNCHANGED <<assertsOn, cache, server, born, last>>

HttpFail(i) ==
    /\ last = Idle
    /\ requests[i].status = "pending"
    /\ requests' = [requests EXCEPT ![i].status = "failed"]
    /\ UNCHANGED <<assertsOn, cache, server, born, last>>

\* The dispatcher caches a channel: a new object under the id, replacing any other
NewChannel(id, kind, ver) == [t |-> kind, id |-> id, ver |-> ver]

CachePut(id, kind) ==
    /\ last = Idle
    /\ cache[id] # None => cache[id].ver < MaxVer
    /\ cache' = [cache EXCEPT
                   ![id] = NewChannel(id, kind, IF cache[id] = None THEN 0 ELSE cache[id].ver + 1)]
    /\ UNCHANGED <<assertsOn, server, born, requests, last>>

\* The dispatcher drops a channel from the cache
CacheRemove(id) ==
    /\ last = Idle
    /\ cache[id] # None
    /\ cache' = [cache EXCEPT ![id] = None]
    /\ UNCHANGED <<assertsOn, server, born, requests, last>>

\* The call returns to the event loop
Return ==
    /\ last # Idle
    /\ last' = Idle
    /\ UNCHANGED <<assertsOn, cache, server, born, requests>>

---------------------------------------------------------------------------
(* Inputs *)

NoKeys == [k \in {} |-> None]

File(id) == Dict(<< <<"_id", Str(id)>> >>)
CategoryPayload(id) == Dict(<< <<"id", Str(id)>> >>)
RolePayload(name) == Dict(<< <<"name", Str(name)>> >>)
Config(items) == Dict(items)

\* The keys every Server payload carries
BasePayload ==
    [_id |-> Str("S1"), name |-> Str("n1"), owner |-> Str("u1"),
     default_permissions |-> Tuple(<<0, 0>>), channels |-> <<>>]

\* A payload with every optional key
FullPayload ==
    [description |-> Str("d1"), nsfw |-> Bool(TRUE), icon |-> File("f1"),
     banner |-> File("f1"), categories |-> List(<<CategoryPayload("k1")>>),
     system_messages |-> Config(<< <<"user_left", Str("c2")>> >>),
     roles |-> Dict(<< <<"r1", RolePayload("admin")>> >>)] @@ BasePayload

\* The values a keyword of _update takes, the empty ones among them
UpdateValues(f) ==
    CASE f = "owner" -> {Str(""), Str("u2")}
      [] f = "name" -> {Str(""), Str("n2")}
      [] f = "description" -> {Str(""), Str("d2")}
      [] f = "icon" -> {EmptyDict, File("f2")}
      [] f = "banner" -> {EmptyDict, File("f2")}
      [] f = "default_permissions" -> {Tuple(<<>>), Tuple(<<1, 1>>)}
      [] f = "nsfw" -> {Bool(FALSE), Bool(TRUE)}
      [] f = "system_messages" -> {EmptyDict, Config(<< <<"user_joined", Str("c1")>> >>)}
      [] f = "categories" -> {List(<<>>), List(<<CategoryPayload("k2")>>)}

UpdateFields ==
    {"owner", "name", "description", "icon", "banner", "default_permissions",
     "nsfw", "system_messages", "categories"}

RECURSIVE KwargsOver(_, _)
\* The keyword arguments that carry at most n of the fields F
KwargsOver(F, n) ==
    IF F = {} \/ n = 0 THEN {NoKeys}
    ELSE LET f == CHOOSE x \in F : TRUE
         IN  KwargsOver(F \ {f}, n) \cup
             {(f :> v) @@ kw : v \in UpdateValues(f), kw \in KwargsOver(F \ {f}, n - 1)}

\* Keyword arguments that carry every field, none of them empty
FullKwargs ==
    [f \in UpdateFields |-> CHOOSE v \in UpdateValues(f) : Truthy(v)]

RECURSIVE ListsOver(_, _)
\* The lists of at most n elements of S
ListsOver(S, n) ==
    IF n = 0 THEN {<<>>}
    ELSE ListsOver(S, n - 1) \cup {Append(l, x) : l \in ListsOver(S, n - 1), x \in S}

Kinds == {"TextChannel", "VoiceChannel"}

\* The caches the dispatcher may have filled before the Server is built
Caches(kinds) == [ChannelIds -> {None} \cup {NewChannel(id, k, 0) : id \in ChannelIds, k \in kinds}]
ConsistentCaches(kinds) == {c \in Caches(kinds) : \A id \in ChannelIds : c[id] # None => c[id].id = id}

---------------------------------------------------------------------------
(* The update protocol: construction from a minimal payload or from one     *)
(* with a description and nsfw set, then partial updates.                   *)

UpdateCtorPayloads ==
    {BasePayload, [description |-> Str("d1"), nsfw |-> Bool(TRUE)] @@ BasePayload}

UpdateKwargs == KwargsOver(UpdateFields, MaxFields)

InitUpdate ==
    /\ assertsOn = TRUE
    /\ cache = [id \in ChannelIds |-> None]
    /\ server = None
    /\ born = None
    /\ requests = <<>>
    /\ last = Idle

NextUpdate ==
    \/ \E data \in UpdateCtorPayloads : Construct(data)
    \/ \E kw \in UpdateKwargs : Update(kw)
    \/ Return

SpecUpdate == InitUpdate /\ [][NextUpdate]_vars

---------------------------------------------------------------------------
(* Properties of the update protocol *)

\* The attribute a keyword of _update writes
Attr(s, f) == IF f = "owner" THEN s.owner_id ELSE s[f]

\* The attribute value that stands for the payload value v of field f
Stored(f, v) ==
    CASE f \in {"icon", "banner"} -> Asset(v)
      [] f = "default_permissions" -> [t |-> "ServerPermissions", value |-> v.elems]
      [] f = "system_messages" ->
            [t |-> "SystemMessages",
             user_joined_id |-> DictGet(v, "user_joined", None),
             user_left_id |-> DictGet(v, "user_left", None),
             user_kicked_id |-> DictGet(v, "user_kicked", None),
             user_banned_id |-> DictGet(v, "user_banned", None)]
      [] f = "categories" -> [i \in 1..Len(v.elems) |-> Category(v.elems[i])]
      [] OTHER -> v

Updated == last.op = "_update"

\* C2 as stated: after _update every field that was not supplied keeps its prior
\* value and every supplied field holds exactly the value of the payload.
C2_AsStated ==
    Updated =>
        \A f \in UpdateFields :
            IF f \in DOMAIN last.kw
            THEN Attr(server, f) = Stored(f, last.kw[f])
            ELSE Attr(server, f) = Attr(last.before, f)

\* The fields _update applies whenever they are present, and those it applies
\* only when their value is non-empty
AppliedWhenPresent == {"description", "nsfw", "system_messages", "categories"}
AppliedWhenNonEmpty == {"owner", "name", "icon", "banner", "default_permissions"}

\* C2, amended: after _update every field that was not supplied keeps its prior
\* value; a supplied non-empty value is held exactly (categories and
\* system_messages replacing the prior list/object, also when empty, and nsfw
\* also when false); a supplied empty description leaves description absent; a
\* supplied empty owner, name, icon, banner or default_permissions is ignored.
C2_UpdateFrameAndEffect ==
    Updated =>
        \A f \in UpdateFields :
            IF f \notin DOMAIN last.kw
            THEN Attr(server, f) = Attr(last.before, f)
            ELSE IF f = "description" /\ last.kw[f] = Str("")
            THEN server.description = None
            ELSE IF f \in AppliedWhenNonEmpty /\ ~Truthy(last.kw[f])
            THEN Attr(server, f) = Attr(last.before, f)
            ELSE Attr(server, f) = Stored(f, last.kw[f])

\* An update that supplies an empty categories list over a non-empty one and
\* nsfw, and leaves a description and an icon alone
C2_Witness ==
    /\ Updated
    /\ DOMAIN last.kw = {"categories", "nsfw"}
    /\ last.kw["categories"] = List(<<>>)
    /\ last.before.categories # <<>>
    /\ server.categories = <<>>
    /\ last.before.description = Str("d1")
    /\ server.description = Str("d1")
    /\ last.before.icon # None
    /\ server.icon = last.before.icon

\* C3: _update with description "" leaves description None, with a non-empty
\* string leaves that string, and without description leaves the prior value.
C3_Description ==
    Updated =>
        IF "description" \notin DOMAIN last.kw
        THEN server.description = last.before.description
        ELSE IF last.kw["description"].v = ""
        THEN server.description = None
        ELSE server.description = last.kw["description"]

\* An empty description clears a description that was set
C3_Witness ==
    /\ Updated
    /\ "description" \in DOMAIN last.kw
    /\ last.kw["description"] = Str("")
    /\ last.before.description # None
    /\ server.description = None

\* C4: _update with nsfw false sets false (also over true), with nsfw true sets
\* true, and without nsfw leaves the prior value.
C4_Nsfw ==
    Updated =>
        IF "nsfw" \in DOMAIN last.kw
        THEN server.nsfw = last.kw["nsfw"]
        ELSE server.nsfw = last.before.nsfw

\* nsfw false applied over nsfw true
C4_Witness ==
    /\ Updated
    /\ "nsfw" \in DOMAIN last.kw
    /\ last.kw["nsfw"] = Bool(FALSE)
    /\ last.before.nsfw = Bool(TRUE)
    /\ server.nsfw = Bool(FALSE)

---------------------------------------------------------------------------
(* Construction against the cache, and the lookups: the Server is built    *)
(* from a payload that lists channel ids and roles while the dispatcher     *)
(* fills, replaces and empties the cache before and after.                  *)

ChannelCtorPayloads ==
    {[channels |-> ids] @@ roles @@ BasePayload :
        ids \in ListsOver(ChannelIds, MaxListed),
        roles \in {NoKeys,
                   [roles |-> Dict(<< <<"r2", RolePayload("mod")>>, <<"r1", RolePayload("admin")>> >>)]}}

SnapshotKwargs == KwargsOver({"name"}, MaxFields) \cup {FullKwargs}

Init ==
    /\ assertsOn = TRUE
    /\ cache \in ConsistentCaches(Kinds)
    /\ server = None
    /\ born = None
    /\ requests = <<>>
    /\ last = Idle

Next ==
    \/ \E data \in ChannelCtorPayloads : Construct(data)
    \/ \E kw \in SnapshotKwargs : Update(kw)
    \/ \E id \in ChannelIds, kind \in Kinds : CachePut(id, kind)
    \/ \E id \in ChannelIds : CacheRemove(id)
    \/ \E id \in RoleIds : GetRole(id)
    \/ \E id \in MemberIds : GetMember(id)
    \/ \E id \in ChannelIds : GetChannel(id)
    \/ Owner
    \/ Return

Spec == Init /\ [][Next]_vars

\* The elements of a sequence, each kept where it first occurs
FirstOccurrences(seq) ==
    LET keep == {i \in 1..Len(seq) : \A j \in 1..(i - 1) : seq[j] # seq[i]}
        Count(i) == Cardinality({k \in keep : k <= i})
        At(n) == CHOOSE i \in keep : Count(i) = n
    IN  [n \in 1..Cardinality(keep) |-> seq[At(n)]]

\* The listed ids the cache resolved when the Server was built, in listed order
ResolvedAtBirth ==
    LET ids == born.data["channels"]
        hit == SelectSeq(ids, LAMBDA id : born.cache[id] # None)
    IN  [i \in 1..Len(hit) |-> born.cache[hit[i]]]

Built == last.op = "__init__"

\* C1 as stated: the channels list of a newly built Server is the list of the
\* channels the cache resolved for the listed ids, in the order listed.
C1_AsStated == Built => ServerChannels(server) = ResolvedAtBirth

\* C1, amended: the channels list of a newly built Server holds the channels the
\* cache resolved for the listed ids, each once, in the order the ids are first
\* listed; an id the cache did not resolve contributes nothing.
C1_ChannelsResolved ==
    Built =>
        /\ ServerChannels(server) = FirstOccurrences(ResolvedAtBirth)
        /\ \A id \in ChannelIds :
              (\E i \in 1..Len(server._channels) : server._channels[i][1] = id)
                 <=> (id \in Range(born.data["channels"]) /\ born.cache[id] # None)

\* The payload lists c1 and c2, the cache holds only c1: one channel, c1's object
C1_Witness ==
    /\ Built
    /\ born.data["channels"] = <<"c1", "c2">>
    /\ cache["c1"] # None
    /\ cache["c2"] = None
    /\ ServerChannels(server) = <<cache["c1"]>>

Looked == last.op \in {"get_role", "get_member", "get_channel"}

\* The mapping a lookup reads
Mapping(op) ==
    CASE op = "get_role" -> server._roles
      [] op = "get_member" -> server._members
      [] op = "get_channel" -> server._channels

\* C5: get_role, get_member and get_channel return the object stored under the
\* id in the Server's own mapping, and raise KeyError when the id is no key of it:
\* get_role on a Server without roles, get_channel for a listed id the cache did
\* not resolve at construction.
C5_Lookups ==
    Looked =>
        LET m == Mapping(last.op)
        IN  /\ IF last.arg \in DictKeys(m)
               THEN /\ last.result.kind = "return"
                    /\ \E i \in 1..Len(m) : m[i] = <<last.arg, last.result.value>>
               ELSE last.result = Raised("KeyError")
            /\ (last.op = "get_role" /\ "roles" \notin DOMAIN born.data)
                   => last.result = Raised("KeyError")
            /\ (last.op = "get_channel" /\ born.cache[last.arg] = None)
                   => last.result = Raised("KeyError")

\* get_channel of a listed id that the cache did not resolve at construction
C5_Witness ==
    /\ last.op = "get_channel"
    /\ last.arg \in Range(born.data["channels"])
    /\ born.cache[last.arg] = None
    /\ last.result = Raised("KeyError")

\* C10: whatever _update calls and cache changes follow the construction, id,
\* channels, roles and members stay as built, and get_channel never resolves a
\* listed id that was cached only afterwards.
C10_Snapshot ==
    server # None =>
        /\ server.id = born.server.id
        /\ ServerChannels(server) = ServerChannels(born.server)
        /\ ServerRoles(server) = ServerRoles(born.server)
        /\ ServerMembers(server) = ServerMembers(born.server)
        /\ (last.op = "get_channel" /\ born.cache[last.arg] = None)
               => last.result.kind = "raise"
        /\ (last.op = "get_channel" /\ born.cache[last.arg] # None
                                     /\ last.arg \in Range(born.data["channels"]))
               => last.result = Returned(born.cache[last.arg])

\* After an update, with a listed channel cached late and another replaced
\* since the construction, get_channel of the late one fails
C10_Witness ==
    /\ last.op = "get_channel"
    /\ server.name # born.server.name
    /\ last.arg \in Range(born.data["channels"])
    /\ born.cache[last.arg] = None
    /\ cache[last.arg] # None
    /\ \E id \in ChannelIds : born.cache[id] # None /\ cache[id] # born.cache[id]
    /\ last.result.kind = "raise"

---------------------------------------------------------------------------
(* The system-message channels: the Server is built with a config, _update  *)
(* may replace it, the dispatcher changes the cache, and the four           *)
(* properties are read in between, with assert statements on or off.        *)

SysConfigs ==
    {EmptyDict,
     Config(<< <<"user_joined", Str("c1")>> >>),
     Config(<< <<"user_left", Str("c2")>>, <<"user_banned", Str("c1")>> >>),
     Config(<< <<"user_joined", Str("c1")>>, <<"user_left", Str("c1")>>,
               <<"user_kicked", Str("c2")>>, <<"user_banned", Str("c2")>> >>)}

SysCtorPayloads ==
    {BasePayload} \cup {[system_messages |-> cfg] @@ BasePayload : cfg \in SysConfigs}

SysKwargs == KwargsOver({"system_messages"}, MaxFields)

InitSys ==
    /\ assertsOn \in BOOLEAN
    /\ cache \in ConsistentCaches(Kinds)
    /\ server = None
    /\ born = None
    /\ requests = <<>>
    /\ last = Idle

NextSys ==
    \/ \E data \in SysCtorPayloads : Construct(data)
    \/ \E kw \in SysKwargs : Update(kw)
    \/ \E id \in ChannelIds, kind \in Kinds : CachePut(id, kind)
    \/ \E id \in ChannelIds : CacheRemove(id)
    \/ UserJoined
    \/ UserLeft
    \/ UserKicked
    \/ UserBanned
    \/ Return

SpecSys == InitSys /\ [][NextSys]_vars

\* The same under the standard interpreter alone, where assert statements run
InitSysDefault == InitSys /\ assertsOn = TRUE

SpecSysDefault == InitSysDefault /\ [][NextSys]_vars

Read == last.op = "system_messages"

\* The id the property just read is configured with (None: not configured)
ReadId == server.system_messages[last.slot]

\* C6: a property whose channel id is not configured returns None and asks the
\* cache for nothing, whatever the other three ids are; with the config {} this
\* is so for all four.
C6_Unconfigured ==
    (Read /\ ReadId = None) => (last.result = Returned(None) /\ last.looked = <<>>)

\* user_left is read while it is not configured and user_joined is
C6_Witness ==
    /\ Read
    /\ last.slot = "user_left_id"
    /\ server.system_messages.user_left_id = None
    /\ server.system_messages.user_joined_id # None
    /\ last.result = Returned(None)

\* Every property of a SystemMessages built from {} returned None
C6_WitnessEmpty ==
    /\ Read
    /\ \A slot \in {"user_joined_id", "user_left_id", "user_kicked_id", "user_banned_id"} :
          server.system_messages[slot] = None
    /\ last.result = Returned(None)

\* C7: a property whose channel id is configured asks the cache for that id on
\* every access and returns the text channel the cache maps it to at that moment.
C7_FreshLookup ==
    (Read /\ ReadId # None /\ cache[ReadId.v] # None /\ cache[ReadId.v].t = "TextChannel")
        => (last.looked = <<ReadId.v>> /\ last.result = Returned(cache[ReadId.v]))

\* C8: a property returns the resolved channel or None; it fails only with an
\* assertion failure, and only when the cache holds no text channel under the
\* configured id; it never returns a channel that is not a text channel.
C8_OnlyAssertionFailure ==
    Read =>
        /\ last.result.kind = "raise" =>
              /\ last.result.exc = "AssertionError"
              /\ ReadId # None
              /\ (cache[ReadId.v] = None \/ cache[ReadId.v].t # "TextChannel")
        /\ last.result.kind = "return" =>
              (last.result.value = None \/ last.result.value.t = "TextChannel")
        /\ (ReadId # None /\ cache[ReadId.v] # None /\ cache[ReadId.v].t = "TextChannel")
              => last.result.kind = "return"

---------------------------------------------------------------------------
(* Default permissions: set_default_permissions calls the transport, the    *)
(* transport answers later, and update events arrive in between.            *)

PermsCtorPayloads == {BasePayload, FullPayload}

PermsKwargs == KwargsOver({"default_permissions", "name"}, MaxFields) \cup {FullKwargs}

Permissions == {ServerPermissions(Tuple(<<1, 1>>)), ServerPermissions(Tuple(<<2, 3>>))}

InitPerms ==
    /\ assertsOn = TRUE
    /\ cache = [id \in ChannelIds |-> None]
    /\ server = None
    /\ born = None
    /\ requests = <<>>
    /\ last = Idle

NextPerms ==
    \/ \E data \in PermsCtorPayloads : Construct(data)
    \/ \E kw \in PermsKwargs : Update(kw)
    \/ \E permissions \in Permissions : SetDefaultPermissions(permissions)
    \/ \E i \in 1..Len(requests) : HttpComplete(i)
    \/ \E i \in 1..Len(requests) : HttpFail(i)
    \/ Return

SpecPerms == InitPerms /\ [][NextPerms]_vars

\* C9: set_default_permissions hands the transport one request with the
\* Server's id and the permission values and changes no attribute of the
\* Server, nor does the request's completion or failure; default_permissions
\* changes only in an _update that carries default_permissions.
C9_NoLocalMutation ==
    [][/\ (last'.op = "set_default_permissions" /\ last = Idle) =>
              /\ server' = server
              /\ requests' = Append(requests,
                                    [route |-> "set_default_permissions",
                                     server_id |-> server.id,
                                     values |-> last'.permissions.value,
                                     status |-> "pending"])
       /\ requests' # requests =>
              /\ server' = server
              /\ \/ last'.op = "set_default_permissions"
                 \/ (Len(requests') = Len(requests)
                     /\ \A i \in 1..Len(requests) :
                           \/ requests'[i] = requests[i]
                           \/ /\ requests[i].status = "pending"
                              /\ [requests'[i] EXCEPT !.status = "pending"] = requests[i])
       /\ (server # None /\ server'.default_permissions # server.default_permissions) =>
              /\ last'.op = "_update"
              /\ Truthy(Arg(last'.kw, "default_permissions"))
              /\ server'.default_permissions.value = last'.kw["default_permissions"].elems
      ]_vars

\* A request for other permissions than the Server's has been answered, and the
\* Server still has the permissions it was built with
C9_Witness ==
    /\ server # None
    /\ server.default_permissions = born.server.default_permissions
    /\ \E i \in 1..Len(requests) :
          /\ requests[i].status = "done"
          /\ requests[i].values # server.default_permissions.value
          /\ requests[i].server_id = server.id
    /\ \E i \in 1..Len(requests) : requests[i].status = "failed"

====
